---- MODULE Spec2Model ----
(***************************************************************************)
(* The manga-translator browser client.  Three near-duplicate scripts      *)
(* exist: main.js ("main": retry client, responsive overlay),              *)
(* unnamed/part_001 ("session": retry client with a session handshake) and *)
(* unnamed/part_000 ("simple": plain fetch).  A page runs one of them; the *)
(* variable variant says which.                                            *)
(*                                                                         *)
(* Every action is one turn of the event loop: a handler or the resumption *)
(* of an async function, run up to its next await on network I/O or on a   *)
(* timer.                                                                  *)
(***************************************************************************)
EXTENDS Integers, Sequences, FiniteSets, TLC

\* ------------------------------------------------------------ bounds
MaxFiles == 3
MaxReads == 2
MaxTokens == 3

\* ------------------------------------------------- program constants
MAX_RETRIES == 3
RETRY_DELAY == 3000
NoTok == 0

Variants == {"main", "session", "simple"}
Kinds == {"batch", "stream"}

\* What one fetch of the target URL can produce.  s403m is a 403 whose body
\* carries the session marker, s500 any other non-OK status, neterr a
\* rejected fetch, abort the 180 s timeout.
Outcomes == {"ok", "s503", "s403m", "s403", "s405", "s429", "s500", "neterr", "abort"}
Responses == Outcomes \ {"neterr", "abort"}

StatusOf(o) ==
    CASE o = "ok" -> 200
      [] o = "s503" -> 503
      [] o \in {"s403m", "s403"} -> 403
      [] o = "s405" -> 405
      [] o = "s429" -> 429
      [] OTHER -> 500

IsOk(status) == status \in 200..299

VARIABLES
    variant,            \* which of the three scripts the page runs
    isProcessing,       \* the global busy flag
    overlayImages,      \* the overlay image list
    btnDisabled,        \* processBtn.disabled / processNhentaiBtn.disabled
    percent,            \* loadingBar.style.width, in percent
    barShown,           \* loadingBarContainer.style.display = "block"
    lastAlert,          \* the alert() the most recent button turn raised
    sessionToken,       \* session variant: the cached token, NoTok for null
    initResult,         \* what the last call of initSession returned and wrote
    sessionInitialized, \* session variant
    issued,             \* tokens the server has handed out so far
    boot,               \* "pending" while the page-load request is in flight
    statusText,         \* status.innerText, by the wording of the message
    statusLog,          \* the messages the most recent turn wrote to it
    currentIndex,       \* the overlay's position in overlayImages, from 0
    zoom,               \* the zoom factor, in thousandths (1000 is 1.0)
    isOverImage,        \* the pointer is over the overlay image
    originalImage,      \* originalImageWidth / originalImageHeight, in px
    overlayOpen,        \* overlay.style.display = "block"
    overlayImg,         \* the overlay's <img>: src, onload, style
    pageIndicator,      \* the numbers in pageIndicator.textContent
    acts                \* the activation of processFiles and of the stream handler

appVars == <<variant, isProcessing, overlayImages, btnDisabled, percent, barShown,
             lastAlert, sessionToken, sessionInitialized, issued, initResult,
             boot, statusText, statusLog, acts>>
viewVars == <<currentIndex, zoom, isOverImage, originalImage, overlayOpen,
              overlayImg, pageIndicator>>
vars == <<appVars, viewVars>>
sessVars == <<sessionToken, sessionInitialized, issued, initResult>>
uiVars == <<isProcessing, overlayImages, btnDisabled, percent, barShown>>

\* ------------------------------------------------------ small helpers
RECURSIVE Sum(_)
Sum(s) == IF s = <<>> THEN 0 ELSE Head(s) + Sum(Tail(s))

IsPrefix(s, t) == Len(s) <= Len(t) /\ SubSeq(t, 1, Len(s)) = s

\* Math.round(num / den * 100) for den > 0 (round half up).
RoundPct(num, den) == (200 * num + den) \div (2 * den)

\* The summary of a finished fetchWithRetry call (observation only).
\* The message of a thrown Error: its wording (kind), the attempt count it
\* names (0 when it names none) and the caught error whose message it quotes.
NoMsg == [kind |-> "none", attempts |-> 0, cause |-> "none"]

NoCall == [res |-> "none", status |-> 0, nFetch |-> 0, nWait |-> 0,
           sumWait |-> 0, n503 |-> 0, msg |-> NoMsg]

\* An activation: the locals of one run of processFiles or of the stream
\* handler together with the retry client it is awaiting.
\*   pc       where the run is suspended: idle, acquire (handshake before the
\*            retry loop), fetch, backoff, reinit (handshake after a 403),
\*            json / errjson (body of an OK / non-OK response), read
\*   n, i     files.length and the loop index of processFiles
\*   att      the loop index i of fetchWithRetry; retries its parameter
\*   hdr      options.headers['Session-Token']
\*   delay    the duration of the pending backoff timer
\*   resp     the status of the response the caller holds
\*   buffer, total, title, reads   the stream handler's buffer,
\*            totalToProcess, galleryTitle (0 for '') and the number of chunks
\*            read
\* Observation only: nFetch, n503, waits (of the current call), sentTok
\* (sessionToken when the pending fetch was sent), last (the outcome the most
\* recent turn received), done (the call that turn finished), uploads and
\* handled (files whose upload call was made / whose handling is complete),
\* expired (a session-expiry 403 was received during this operation), text
\* (all the text the stream has delivered) and decoded (the lines handed to
\* JSON.parse).
Idle == [pc |-> "idle", n |-> 0, i |-> 0, att |-> 0, retries |-> 0, hdr |-> NoTok,
         delay |-> 0, resp |-> 0, buffer |-> <<>>, total |-> 0, reads |-> 0,
         nFetch |-> 0, n503 |-> 0, waits |-> <<>>, sentTok |-> NoTok,
         last |-> "none", done |-> NoCall, uploads |-> <<>>, handled |-> <<>>,
         expired |-> FALSE, title |-> 0, text |-> <<>>, decoded |-> <<>>]

\* Every turn of an activation starts from its record with the per-turn
\* observations cleared.
Turn(r) == [r EXCEPT !.last = "none", !.done = NoCall]

CallDone(r, res, status) ==
    [res |-> res, status |-> status, nFetch |-> r.nFetch, nWait |-> Len(r.waits),
     sumWait |-> Sum(r.waits), n503 |-> r.n503, msg |-> NoMsg]

\* ---------------------------------------------------- the status line
\* A message is modelled by its wording, without the numbers and names it
\* quotes.  A turn collects what it writes in the said field of its UI record.
Say(u, m) == [u EXCEPT !.said = Append(@, m)]
SayAll(u, ms) == [u EXCEPT !.said = @ \o ms]

\* What the line shows after a turn that wrote the messages said.
Shown(old, said) == IF said = <<>> THEN old ELSE said[Len(said)]

\* processFiles before each upload call.
UploadSaid ==
    CASE variant = "main" -> <<"uploading", "connecting">>
      [] variant = "session" -> <<"uploading">>
      [] OTHER -> <<>>

\* processFiles between an OK response and `await res.json()`.
ProcessingSaid ==
    CASE variant = "main" -> <<"processing", "detecting", "reading", "translating">>
      [] variant = "session" -> <<"processing">>
      [] OTHER -> <<>>

\* processFiles around the creation of a result card.
RenderedSaid == IF variant = "simple" THEN <<>> ELSE <<"rendering", "completed">>

\* The non-OK branch of both handlers, for a response with this status.
HttpErrorSaid(status) ==
    <<"httperror">> \o
    (IF variant # "simple" /\ status = 503 THEN <<"starting">>
     ELSE IF variant = "session" /\ status = 429 THEN <<"ratelimit">>
     ELSE <<>>)

\* Both handlers between the guards and the first await.
AcceptSaid(k) ==
    IF k = "batch"
    THEN IF variant = "simple" THEN <<"processing">>
         ELSE <<"initializing">> \o UploadSaid
    ELSE IF variant = "simple" THEN <<"fetching">>
         ELSE <<"parsing", "connectingnh">>

\* The message after the batch loop.
AllDoneSaid == <<"alldone">>

\* initSession writes its first message when it is called.
Entering(c, u) == IF c.pc \in {"acquire", "reinit"} THEN Say(u, "sessinit") ELSE u

\* ------------------------------------------------- the retry client
\* fetchWithRetry's decisions, as the code writes them.
\* (mutant) the delay is not scaled by the attempt number.
RetryDelayFlat(att) == RETRY_DELAY

RetryDelayFor(att) == RETRY_DELAY * (att + 1)

ReturnsNow(status, att, retries) == IsOk(status) \/ (status # 503 /\ att = retries)

\* (mutant) every non-OK response is retried.
RetriesAnyFailure(status, att, retries) == ~IsOk(status) /\ att < retries

\* (mutant) the cold-start retry stops one attempt early.
RetriesColdStartEarly(status, att, retries) == status = 503 /\ att < retries - 1

RetriesColdStart(status, att, retries) == status = 503 /\ att < retries

\* (mutant) the last-attempt test is off by one.
LastAttemptOffByOne(att, retries) == att = retries + 1

LastAttempt(att, retries) == att = retries

LoopCond(att, retries) == att <= retries

\* (mutant) the handshake is re-run on the last attempt too.
RehandshakeAlways(att, retries) == TRUE

RehandshakeAllowed(att, retries) == att < retries

SessionReady(init, tok) == init /\ tok # NoTok

\* The fetch of the target URL is issued: options (with the header put there
\* before the loop) goes out while the session token is tok.
SendFetch(r, tok) == [r EXCEPT !.pc = "fetch", !.nFetch = @ + 1, !.sentTok = tok]

\* The header fetchWithRetry adds to options, once, before its loop.
WithHeader(r, tok) == [r EXCEPT !.hdr = tok]

\* A call of fetchWithRetry (or, in the simple variant, of fetch) up to its
\* first await; init and tok are the session state at the call.
StartCall(r, init, tok) ==
    LET c == [r EXCEPT !.att = 0, !.retries = MAX_RETRIES, !.hdr = NoTok,
                       !.delay = 0, !.resp = 0, !.nFetch = 0, !.n503 = 0,
                       !.waits = <<>>, !.sentTok = NoTok]
    IN  IF variant = "session"
        THEN IF SessionReady(init, tok)
             THEN SendFetch(WithHeader(c, tok), tok)
             ELSE [c EXCEPT !.pc = "acquire"]
        ELSE SendFetch(c, tok)

\* ------------------------------------------------ stream line handling
NL == "\n"

\* pages_to_process of the info event the server sends.
PagesToProcess == 2

\* The JSON objects the server sends, each written as one character followed
\* by "}".  The two result events differ in the progress value and in the
\* image they carry.
Events ==
    [i |-> [type |-> "info", title |-> 1, pages |-> PagesToProcess],
     r |-> [type |-> "result", image |-> 1, progress |-> 1],
     R |-> [type |-> "result", image |-> 2, progress |-> 2],
     e |-> [type |-> "error"],
     c |-> [type |-> "complete"]]

EventChars == DOMAIN Events

\* The chunks a read can deliver.  Any line that is not an event character
\* followed by "}" fails JSON.parse.
Chunks == { <<"i", "}", NL>>,
            <<"r", "}", NL>>,
            <<"r">>,
            <<"}", NL, "R", "}", NL>>,
            <<"e", "}", NL, " ", NL>>,
            <<"c", "}", NL, "}", NL>> }

\* (mutant) the new entry is put in front.
Unshift(imgs, img) == <<img>> \o imgs

\* overlayImages.push(img).
Push(imgs, img) == Append(imgs, img)

RECURSIVE SplitLines(_)
SplitLines(s) ==
    IF \A k \in 1..Len(s) : s[k] # NL
    THEN <<s>>
    ELSE LET k == CHOOSE j \in 1..Len(s) : s[j] = NL /\ \A m \in 1..(j-1) : s[m] # NL
         IN  <<SubSeq(s, 1, k - 1)>> \o SplitLines(SubSeq(s, k + 1, Len(s)))

RECURSIVE Trim(_)
Trim(s) ==
    IF s = <<>> THEN s
    ELSE IF Head(s) = " " THEN Trim(Tail(s))
    ELSE IF s[Len(s)] = " " THEN Trim(SubSeq(s, 1, Len(s) - 1))
    ELSE s

\* JSON.parse(line), with the type "bad" when JSON.parse throws.
Parse(line) ==
    LET t == Trim(line)
    IN  IF Len(t) = 2 /\ t[1] \in EventChars /\ t[2] = "}"
        THEN Events[t[1]]
        ELSE [type |-> "bad"]

\* The messages of a result event and of an error event.
ResultSaid == IF variant = "simple" THEN <<"pagedone">> ELSE <<"page", "pagedone">>
ErrorSaid == IF variant = "simple" THEN <<>> ELSE <<"pageerror">>

\* loadingBar.style.width after a result event; with totalToProcess = 0 the
\* value is "Infinity%", which the style ignores.
StreamPercent(progress, total, old) ==
    IF total > 0 THEN RoundPct(progress, total) ELSE old

\* (mutant) a result whose progress value the list has already reached is
\* not appended.
ResultByProgress(data, s) ==
    [s EXCEPT !.imgs = IF data.progress > Len(@) THEN Push(@, data.image) ELSE @,
              !.pct = StreamPercent(data.progress, s.total, @),
              !.said = @ \o ResultSaid]

\* The result branch: a card and an overlay entry for the image, then the
\* bar width from the server's progress value.
Result(data, s) ==
    [s EXCEPT !.imgs = Push(@, data.image),
              !.pct = StreamPercent(data.progress, s.total, @),
              !.said = @ \o ResultSaid]

\* (mutant) the inner catch block starts the progress over.
SkippedResets(s) == [s EXCEPT !.total = 0, !.pct = 0]

\* The inner catch block: console.error, nothing else.
Skipped(s) == s

\* One line of the for-of loop over lines;
\* s = [imgs, total, title, pct, said, decoded], where decoded lists the lines
\* handed to JSON.parse so far.  A line that fails to parse reaches the inner
\* catch block, which only logs to the console.
HandleLine(line, s) ==
    IF Trim(line) = <<>> THEN s
    ELSE LET data == Parse(line)
             s1 == [s EXCEPT !.decoded = Append(@, line)]
         IN  CASE data.type = "info" ->
                    [s1 EXCEPT !.title = data.title, !.total = data.pages,
                               !.said = Append(@, "found")]
               [] data.type = "result" -> Result(data, s1)
               [] data.type = "error" -> [s1 EXCEPT !.said = @ \o ErrorSaid]
               [] data.type = "complete" -> [s1 EXCEPT !.said = Append(@, "streamdone")]
               [] OTHER -> Skipped(s1)

RECURSIVE HandleLines(_, _)
HandleLines(lines, s) ==
    IF lines = <<>> THEN s
    ELSE HandleLines(Tail(lines), HandleLine(Head(lines), s))

\* --------------------------------------------- processFiles, resumed
\* What a turn leaves behind: the activation, the UI it wrote
\* (u = [imgs, pct, bar, said]) and whether the operation ended in this turn.
Going(r, u) == [act |-> r, ui |-> u, ended |-> FALSE]
Ended(u) == [act |-> Idle, ui |-> u, ended |-> TRUE]

\* (mutant) the loop skips every other file.
NextIndexSkips(i) == i + 2

NextIndex(i) == i + 1

\* (mutant) the code after the loop writes no final message.
NextFileEndsSilent(r, how, u, init, tok) ==
    LET r1 == [r EXCEPT !.handled = Append(@, [file |-> r.i, how |-> how]),
                        !.i = NextIndex(r.i)]
    IN  IF r1.i < r1.n
        THEN LET c == StartCall([r1 EXCEPT !.uploads = Append(@, r1.i)], init, tok)
             IN  Going(c, Entering(c, SayAll(u, UploadSaid)))
        ELSE Ended(u)

\* The end of the for loop's body for file r.i, handled as how: i++, then the
\* next file's upload call, or the code after the loop.
NextFile(r, how, u, init, tok) ==
    LET r1 == [r EXCEPT !.handled = Append(@, [file |-> r.i, how |-> how]),
                        !.i = NextIndex(r.i)]
    IN  IF r1.i < r1.n
        THEN LET c == StartCall([r1 EXCEPT !.uploads = Append(@, r1.i)], init, tok)
             IN  Going(c, Entering(c, SayAll(u, UploadSaid)))
        ELSE Ended(SayAll(u, AllDoneSaid))

\* (mutant) a failed file advances the progress bar as well.
BatchFailedAdvancesBar(r, u, init, tok) ==
    NextFile(r, "fail", [u EXCEPT !.pct = RoundPct(r.i + 1, r.n)], init, tok)

\* (mutant) a failed file ends the batch.
BatchFailedEnds(r, u, init, tok) == Ended(u)

\* A failed file: the `continue` of the non-OK branch and the catch block.
BatchFailed(r, u, init, tok) == NextFile(r, "fail", u, init, tok)

\* processFiles after `await fetchWithRetry(...)` settles with
\* ret = [how, status]: how is resp, throw or undef (no value returned).
BatchResumes(r, ret, u, init, tok) ==
    IF ret.how = "resp"
    THEN Going([r EXCEPT !.pc = IF IsOk(ret.status) THEN "json" ELSE "errjson",
                         !.resp = ret.status],
               IF IsOk(ret.status) THEN SayAll(u, ProcessingSaid) ELSE u)
    ELSE BatchFailed(r, Say(u, "reqfailed"), init, tok)

BodyOutcomes == {"image", "noimage", "bad"}

\* processFiles after `await res.json()` settles: image is a body with a
\* result_image, noimage one without, bad a body that makes json() (or the
\* read of data.result_image) throw.  The main and session scripts read the
\* body of a non-OK response inside a try block of its own.
BatchBody(r, o, u, init, tok) ==
    IF r.pc = "errjson"
    THEN IF variant = "simple" /\ o = "bad"
         THEN BatchFailed(r, Say(u, "reqfailed"), init, tok)
         ELSE BatchFailed(r, SayAll(u, HttpErrorSaid(r.resp)), init, tok)
    ELSE IF o = "bad"
    THEN BatchFailed(r, Say(u, "reqfailed"), init, tok)
    ELSE LET pct == RoundPct(r.i + 1, r.n)
         IN  IF o = "image"
             THEN NextFile(r, "ok", [SayAll(u, RenderedSaid)
                                       EXCEPT !.imgs = Push(@, r.i + 1), !.pct = pct],
                           init, tok)
             ELSE NextFile(r, "noimg", [u EXCEPT !.pct = pct], init, tok)

\* ------------------------------------------ the stream handler, resumed
\* (mutant) the error paths leave the progress bar container displayed.
HiddenNot == TRUE

\* barShown after loadingBarContainer.style.display = "none".
Hidden == FALSE

\* (mutant) the handler leaves without running its finally block.
StreamExitNoFinally(u, hide) ==
    [act |-> Idle, ui |-> [u EXCEPT !.bar = IF hide THEN Hidden ELSE @], ended |-> FALSE]

\* The handler's exits: the finally block always runs; the catch block and
\* the non-OK branch hide the progress bar first.
StreamExit(u, hide) == Ended([u EXCEPT !.bar = IF hide THEN Hidden ELSE @])

StreamResumes(r, ret, u) ==
    IF ret.how # "resp"
    THEN StreamExit(Say(u, "reqfailed"), TRUE)
    ELSE IF IsOk(ret.status)
         THEN Going([r EXCEPT !.pc = "read", !.resp = ret.status, !.buffer = <<>>,
                              !.title = 0, !.total = 0, !.reads = 0,
                              !.text = <<>>, !.decoded = <<>>],
                    IF variant = "simple" THEN u ELSE Say(u, "connected"))
         ELSE IF variant = "simple"
              THEN StreamExit(Say(u, "httperror"), TRUE)
              ELSE Going([r EXCEPT !.pc = "errjson", !.resp = ret.status], u)

\* (mutant) the unfinished last piece is not kept.
CarryNothing(parts) == <<>>

\* buffer = lines.pop().
Carry(parts) == parts[Len(parts)]

\* (mutant) the handler returns once a complete event has been handled.
StreamChunkUntilComplete(r, chunk, u) ==
    LET parts == SplitLines(r.buffer \o chunk)
        lines == SubSeq(parts, 1, Len(parts) - 1)
        s == HandleLines(lines, [imgs |-> u.imgs, total |-> r.total,
                                 title |-> r.title, pct |-> u.pct,
                                 said |-> u.said, decoded |-> r.decoded])
        w == [u EXCEPT !.imgs = s.imgs, !.pct = s.pct, !.said = s.said]
    IN  IF \E k \in 1..Len(lines) : Parse(lines[k]).type = "complete"
        THEN StreamExit(w, FALSE)
        ELSE Going([r EXCEPT !.buffer = Carry(parts), !.total = s.total,
                             !.title = s.title, !.reads = @ + 1,
                             !.text = @ \o chunk, !.decoded = s.decoded], w)

\* One chunk: buffer += chunk; lines = buffer.split('\n'); buffer = lines.pop();
\* then the loop over lines.
StreamChunk(r, chunk, u) ==
    LET parts == SplitLines(r.buffer \o chunk)
        lines == SubSeq(parts, 1, Len(parts) - 1)
        s == HandleLines(lines, [imgs |-> u.imgs, total |-> r.total,
                                 title |-> r.title, pct |-> u.pct,
                                 said |-> u.said, decoded |-> r.decoded])
    IN  Going([r EXCEPT !.buffer = Carry(parts), !.total = s.total,
                        !.title = s.title, !.reads = @ + 1,
                        !.text = @ \o chunk, !.decoded = s.decoded],
              [u EXCEPT !.imgs = s.imgs, !.pct = s.pct, !.said = s.said])

\* The caller of the retry client resumes.
Resume(k, r, ret, u, init, tok) ==
    IF k = "batch" THEN BatchResumes(r, ret, u, init, tok) ELSE StreamResumes(r, ret, u)

UI == [imgs |-> overlayImages, pct |-> percent, bar |-> barShown, said |-> <<>>]

\* Messages written earlier in the turn than those of b.
SaidFirst(ms, b) == [b EXCEPT !.ui.said = ms \o @]

\* ... and one written after them.
Saying(b, m) == [b EXCEPT !.ui = Say(@, m)]

\* The turn's result b is written back.
Apply(k, b) ==
    /\ acts' = [acts EXCEPT ![k] = b.act]
    /\ overlayImages' = b.ui.imgs
    /\ percent' = b.ui.pct
    /\ barShown' = b.ui.bar
    /\ statusLog' = b.ui.said
    /\ statusText' = Shown(statusText, b.ui.said)
    /\ IF b.ended
       THEN /\ isProcessing' = FALSE
            /\ btnDisabled' = [btnDisabled EXCEPT ![k] = FALSE]
       ELSE UNCHANGED <<isProcessing, btnDisabled>>

\* fetchWithRetry returns the response / throws, and its caller runs on.
Returns(k, r, status, init, tok) ==
    Resume(k, [r EXCEPT !.done = CallDone(r, "resp", status)],
           [how |-> "resp", status |-> status], UI, init, tok)

\* (mutant) the Error leaves the awaiting handler uncaught: the activation is
\* gone and nothing it would have done in its catch block happens.
ThrowsUncaught(k, r, msg, init, tok) == [act |-> Idle, ui |-> UI, ended |-> FALSE]

Throws(k, r, msg, init, tok) ==
    Resume(k, [r EXCEPT !.done = [CallDone(r, "throw", 0) EXCEPT !.msg = msg]],
           [how |-> "throw", status |-> 0], UI, init, tok)

FallsOut(k, r, init, tok) ==
    Resume(k, [r EXCEPT !.done = CallDone(r, "undef", 0)],
           [how |-> "undef", status |-> 0], UI, init, tok)

\* The backoff timer is armed.
Backoff(r) ==
    Going([r EXCEPT !.pc = "backoff", !.delay = RetryDelayFor(r.att),
                    !.waits = Append(@, RetryDelayFor(r.att))], UI)

\* The for loop's i++ and test, then the next fetch.
NextAttempt(k, r, init, tok) ==
    LET r1 == [r EXCEPT !.att = @ + 1, !.delay = 0]
    IN  IF LoopCond(r1.att, r1.retries)
        THEN Going(SendFetch(r1, tok), UI)
        ELSE FallsOut(k, r1, init, tok)

\* (mutant) the message counts the retries, not the attempts.
FinalErrorCountsRetries(r) ==
    IF r.last = "abort"
    THEN [kind |-> "timeout", attempts |-> 0, cause |-> "none"]
    ELSE [kind |-> "failed", attempts |-> r.retries, cause |-> r.last]

\* The Error the catch block throws on the last attempt: 'Request timed out
\* after 3 minutes' for an AbortError, 'Failed after ${retries + 1} attempts:
\* ${error.message}' for any other caught error.
FinalError(r) ==
    IF r.last = "abort"
    THEN [kind |-> "timeout", attempts |-> 0, cause |-> "none"]
    ELSE [kind |-> "failed", attempts |-> r.retries + 1, cause |-> r.last]

\* 'Session initialization failed', thrown by the gate before the loop.
SessionError == [kind |-> "session", attempts |-> 0, cause |-> "none"]

\* The simple variant's fetch rejects with the browser's own error.
FetchError(r) == [kind |-> "fetch", attempts |-> 0, cause |-> r.last]

\* The catch block of fetchWithRetry.
Caught(k, r, init, tok) ==
    IF LastAttempt(r.att, r.retries)
    THEN Throws(k, r, FinalError(r), init, tok)
    ELSE Saying(Backoff(r), "retrying")

\* The code after the 403 check, for a response with this status.
AfterSessionCheck(k, r, status, init, tok) ==
    IF ReturnsNow(status, r.att, r.retries) THEN Returns(k, r, status, init, tok)
    ELSE IF RetriesColdStart(status, r.att, r.retries) THEN Saying(Backoff(r), "waking")
    ELSE IF variant = "session" /\ status \in {405, 429} THEN Caught(k, r, init, tok)
    ELSE Returns(k, r, status, init, tok)

\* ---------------------------------------------------- overlay viewer
\* zoom is held in thousandths and image sizes in pixels, so that every value
\* the handlers compute is an integer (a rendered size is in thousandths of
\* a pixel).  The responsive viewer is the one of the main and session
\* variants; the simple variant scales with a CSS transform.
Responsive == variant # "simple"

Min(a, b) == IF a < b THEN a ELSE b
Max(a, b) == IF a > b THEN a ELSE b

\* window.innerWidth and window.innerHeight.
InnerWidth == 1000
InnerHeight == 800

\* naturalWidth and naturalHeight of a result image: one that fits the
\* window, a wide one and one that would need less than the zoom floor.
Sizes == << [w |-> 600, h |-> 400], [w |-> 1800, h |-> 600], [w |-> 9000, h |-> 1200] >>
NaturalSize(img) == Sizes[((img - 1) % Len(Sizes)) + 1]

\* The value `let zoom` starts with and openOverlay assigns.
OpenZoom == IF Responsive THEN 1000 ELSE 1500

\* The value double-click and the '0' key assign.
ResetZoom == 1500

\* The wheel handler: step and clamp.
WheelStep == IF Responsive THEN 50 ELSE 100
WheelMin == IF Responsive THEN 100 ELSE 500

\* (mutant) the simple wheel handler clamps at 2.5.
WheelMaxWide == IF Responsive THEN 1000 ELSE 2500

WheelMax == IF Responsive THEN 1000 ELSE 2000

WheelZoom(z, up) ==
    Min(Max(IF up THEN z + WheelStep ELSE z - WheelStep, WheelMin), WheelMax)

\* The '+', '=' and '-', '_' handlers.
KeyStep == 100
KeyMin == 500
KeyMax == 2000
KeyZoomIn(z) == Min(z + KeyStep, KeyMax)
KeyZoomOut(z) == Max(z - KeyStep, KeyMin)

\* The fit-to-window zoom of the responsive onload handler.
FitFloor == 200
FitZoom(size) ==
    LET availableWidth == InnerWidth - 100
        availableHeight == InnerHeight - 200
        fit == IF size.w > availableWidth \/ size.h > availableHeight
               THEN Min((availableWidth * 1000) \div size.w,
                        (availableHeight * 1000) \div size.h)
               ELSE 1000
    IN  Max(fit, FitFloor)

\* updateZoom: the responsive one sizes the image (and does nothing before
\* the first load), the simple one sets the wrapper's scale.
UpdateZoom(img, orig, z) ==
    IF Responsive
    THEN IF orig.w = 0 THEN img ELSE [img EXCEPT !.w = orig.w * z, !.h = orig.h * z]
    ELSE [img EXCEPT !.scale = z]

\* The viewer when the script has run: nothing opened yet.
NoSize == [w |-> 0, h |-> 0]
NoPage == [page |-> 0, of |-> 0]
NoImg == [src |-> 0, loading |-> FALSE, onload |-> "none", w |-> 0, h |-> 0,
          scale |-> 0, opacity |-> 1]

ViewerStart ==
    /\ currentIndex = 0
    /\ zoom = OpenZoom
    /\ isOverImage = FALSE
    /\ originalImage = NoSize
    /\ overlayOpen = FALSE
    /\ overlayImg = NoImg
    /\ pageIndicator = NoPage

\* ------------------------------------------------------------ state
\* initResult observes the call: its return value and the type of the status
\* line it leaves ("Initializing secure session..." is info, the catch
\* block's message is error).
NoInit == [called |-> FALSE, ret |-> FALSE, status |-> "none"]

\* The DOMContentLoaded handler up to its await: the main script announces
\* its health check, the session script calls initSession, the simple
\* script writes nothing.
LoadSaid ==
    CASE variant = "main" -> <<"checking">>
      [] variant = "session" -> <<"sessinit">>
      [] OTHER -> <<>>

Init ==
    /\ variant \in Variants
    /\ isProcessing = FALSE
    /\ overlayImages = <<>>
    /\ btnDisabled = [k \in Kinds |-> FALSE]
    /\ percent = 0
    /\ barShown = FALSE
    /\ lastAlert = "none"
    /\ sessionToken = NoTok
    /\ sessionInitialized = FALSE
    /\ issued = 0
    /\ initResult = NoInit
    /\ boot = IF variant = "simple" THEN "done" ELSE "pending"
    /\ statusLog = LoadSaid
    /\ statusText = Shown("none", LoadSaid)
    /\ acts = [k \in Kinds |-> Idle]
    /\ ViewerStart

\* ------------------------------------------------- session handshake
\* initSession once its fetch of /get-session has settled: ok stores the
\* token the server issued; a failure only writes the status line.
\* (mutant) the catch block marks the session initialized.
InitSessionMarksOnFailure(ok) ==
    /\ ok => issued < MaxTokens
    /\ issued' = IF ok THEN issued + 1 ELSE issued
    /\ sessionToken' = IF ok THEN issued + 1 ELSE sessionToken
    /\ sessionInitialized' = TRUE
    /\ initResult' = [called |-> TRUE, ret |-> ok,
                      status |-> IF ok THEN "info" ELSE "error"]

InitSession(ok) ==
    IF ok
    THEN /\ issued < MaxTokens
         /\ issued' = issued + 1
         /\ sessionToken' = issued + 1
         /\ sessionInitialized' = TRUE
         /\ initResult' = [called |-> TRUE, ret |-> TRUE, status |-> "info"]
    ELSE /\ UNCHANGED <<sessionToken, sessionInitialized, issued>>
         /\ initResult' = [called |-> TRUE, ret |-> FALSE, status |-> "error"]

\* The answer of /get-session is OK and its JSON body has no token member:
\* `sessionToken = data.token` stores undefined (a falsy value, like null)
\* and the next statement marks the session initialized.
InitSessionNoToken ==
    /\ sessionToken' = NoTok
    /\ sessionInitialized' = TRUE
    /\ UNCHANGED issued
    /\ initResult' = [called |-> TRUE, ret |-> TRUE, status |-> "info"]

\* initSession for any answer: ok with a token, ok without one, failure.
InitSessionGets(ok, hasToken) ==
    IF ok /\ ~hasToken THEN InitSessionNoToken ELSE InitSession(ok)

\* A turn outside the two handlers wrote said.
Wrote(said) ==
    /\ statusLog' = said
    /\ statusText' = Shown(statusText, said)

\* The catch block of initSession.
InitSaid(ok) == IF ok THEN <<>> ELSE <<"sessfailed">>

\* The DOMContentLoaded handler of the session variant.
PageLoadAnswers(ok, hasToken) ==
    /\ variant = "session"
    /\ boot = "pending"
    /\ boot' = "done"
    /\ InitSessionGets(ok, hasToken)
    /\ Wrote(InitSaid(ok) \o <<IF ok THEN "ready" ELSE "connectfailed">>)
    /\ UNCHANGED <<variant, viewVars, uiVars, lastAlert, acts>>

\* ... when the server keeps to `GET /get-session returns {token}`.
PageLoadSettles(ok) == PageLoadAnswers(ok, TRUE)

\* The health check of the main script settles: an OK or 404 answer, any
\* other answer, a rejected fetch or the 10 s abort.
HealthOutcomes == {"ok", "s404", "s503", "neterr", "abort"}

HealthSettles(o) ==
    /\ variant = "main"
    /\ boot = "pending"
    /\ boot' = "done"
    /\ Wrote(<<CASE o \in {"ok", "s404"} -> "ready"
                 [] o = "s503" -> "startingup"
                 [] OTHER -> "sleeping">>)
    /\ UNCHANGED <<variant, viewVars, uiVars, sessVars, lastAlert, acts>>

\* ---------------------------------------------------- button handlers
\* (mutant) the guard never rejects.
BusyNever == FALSE

\* The re-entrancy guard of both handlers.
Busy == isProcessing

\* The session variant's second guard.
NoSession == variant = "session" /\ ~sessionInitialized

\* (mutant) the guards come after the reset of the result list and the bar.
AlertAfterReset(msg) ==
    /\ lastAlert' = msg
    /\ Wrote(<<>>)
    /\ overlayImages' = <<>>
    /\ percent' = 0
    /\ UNCHANGED <<isProcessing, btnDisabled, barShown, acts>>

Alert(msg) == lastAlert' = msg /\ Wrote(<<>>) /\ UNCHANGED <<uiVars, acts>>

\* The state both handlers set before their first await.
Accept(k, r) ==
    /\ isProcessing' = TRUE
    /\ btnDisabled' = [btnDisabled EXCEPT ![k] = TRUE]
    /\ overlayImages' = <<>>
    /\ barShown' = TRUE
    /\ percent' = 0
    /\ LET c == StartCall(r, sessionInitialized, sessionToken)
       IN  /\ acts' = [acts EXCEPT ![k] = c]
           /\ Wrote(Entering(c, SayAll(UI, AcceptSaid(k))).said)
    /\ lastAlert' = "none"

\* processBtn.onclick with n files selected, and processFiles(files).
ClickProcess(n) ==
    /\ ~btnDisabled["batch"]
    /\ IF n = 0 THEN Alert("nofile")
       ELSE IF Busy THEN Alert("busy")
       ELSE IF NoSession THEN Alert("nosession")
       ELSE Accept("batch", [Idle EXCEPT !.n = n, !.i = 0, !.uploads = <<0>>])
    /\ UNCHANGED <<variant, viewVars, sessVars, boot>>

\* processNhentaiBtn.onclick; hasUrl says whether the trimmed URL is non-empty.
ClickNhentai(hasUrl) ==
    /\ ~btnDisabled["stream"]
    /\ IF Busy THEN Alert("busy")
       ELSE IF NoSession THEN Alert("nosession")
       ELSE IF ~hasUrl THEN Alert("nourl")
       ELSE Accept("stream", Idle)
    /\ UNCHANGED <<variant, viewVars, sessVars, boot>>

\* ------------------------------------------------- retry client turns
\* The pending fetch of fetchWithRetry settles with outcome o.
FetchSettles(k, o) ==
    /\ variant # "simple"
    /\ acts[k].pc = "fetch"
    /\ LET r == [Turn(acts[k]) EXCEPT !.last = o,
                                      !.n503 = IF o = "s503" THEN @ + 1 ELSE @]
       IN  IF o \in {"neterr", "abort"}
           THEN /\ Apply(k, Caught(k, r, sessionInitialized, sessionToken))
                /\ UNCHANGED sessVars
           ELSE IF variant = "session" /\ o = "s403m"
           THEN /\ sessionInitialized' = FALSE
                /\ sessionToken' = NoTok
                /\ UNCHANGED <<issued, initResult>>
                /\ LET x == [r EXCEPT !.expired = TRUE]
                   IN  IF RehandshakeAllowed(x.att, x.retries)
                       THEN Apply(k, Going([x EXCEPT !.pc = "reinit"], Say(UI, "sessinit")))
                       ELSE Apply(k, AfterSessionCheck(k, x, StatusOf(o), FALSE, NoTok))
           ELSE /\ Apply(k, AfterSessionCheck(k, r, StatusOf(o),
                                              sessionInitialized, sessionToken))
                /\ UNCHANGED sessVars
    /\ UNCHANGED <<variant, viewVars, lastAlert, boot>>

\* The simple variant's bare fetch settles.
PlainFetchSettles(k, o) ==
    /\ variant = "simple"
    /\ acts[k].pc = "fetch"
    /\ o # "abort"
    /\ LET r == [Turn(acts[k]) EXCEPT !.last = o]
       IN  IF o = "neterr"
           THEN Apply(k, Throws(k, r, FetchError(r), sessionInitialized, sessionToken))
           ELSE Apply(k, Returns(k, r, StatusOf(o), sessionInitialized, sessionToken))
    /\ UNCHANGED <<variant, viewVars, sessVars, lastAlert, boot>>

\* The backoff timer fires.
BackoffElapses(k) ==
    /\ acts[k].pc = "backoff"
    /\ Apply(k, NextAttempt(k, Turn(acts[k]), sessionInitialized, sessionToken))
    /\ UNCHANGED <<variant, viewVars, sessVars, lastAlert, boot>>

\* The handshake awaited inside fetchWithRetry settles: the one of
\* refreshSessionIfNeeded before the loop (acquire) or the one after a
\* session-expiry 403 (reinit).
HandshakeAnswers(k, ok, hasToken) ==
    /\ acts[k].pc \in {"acquire", "reinit"}
    /\ InitSessionGets(ok, hasToken)
    /\ LET r == Turn(acts[k])
       IN  Apply(k, SaidFirst(InitSaid(ok),
             IF r.pc = "reinit"
             THEN NextAttempt(k, r, sessionInitialized', sessionToken')
             ELSE IF ok
             THEN Going(SendFetch(WithHeader(r, sessionToken'), sessionToken'), UI)
             ELSE Throws(k, r, SessionError, sessionInitialized', sessionToken')))
    /\ UNCHANGED <<variant, viewVars, lastAlert, boot>>

\* ... when the server keeps to `GET /get-session returns {token}`.
HandshakeSettles(k, ok) == HandshakeAnswers(k, ok, TRUE)

\* ------------------------------------------------------- caller turns
\* `await res.json()` settles.
BodySettles(k, o) ==
    /\ acts[k].pc \in {"json", "errjson"}
    /\ LET r == Turn(acts[k])
       IN  IF k = "batch"
           THEN Apply(k, BatchBody(r, o, UI, sessionInitialized, sessionToken))
           ELSE Apply(k, StreamExit(SayAll(UI, HttpErrorSaid(r.resp)), TRUE))
    /\ UNCHANGED <<variant, viewVars, sessVars, lastAlert, boot>>

\* `await reader.read()` settles with a chunk.
ReadChunk(chunk) ==
    /\ acts["stream"].pc = "read"
    /\ acts["stream"].reads < MaxReads
    /\ Apply("stream", StreamChunk(Turn(acts["stream"]), chunk, UI))
    /\ UNCHANGED <<variant, viewVars, sessVars, lastAlert, boot>>

\* (mutant) at done the handler decodes what is left in the buffer.
ReadDoneFlushes ==
    /\ acts["stream"].pc = "read"
    /\ LET r == Turn(acts["stream"])
           s == HandleLines(<<r.buffer>>,
                            [imgs |-> UI.imgs, total |-> r.total, title |-> r.title,
                             pct |-> UI.pct, said |-> UI.said, decoded |-> r.decoded])
       IN  Apply("stream", StreamExit([UI EXCEPT !.imgs = s.imgs, !.pct = s.pct,
                                                 !.said = s.said], FALSE))
    /\ UNCHANGED <<variant, viewVars, sessVars, lastAlert, boot>>

\* ... with done = true: `if (done) break`, then the finally block.
ReadDone ==
    /\ acts["stream"].pc = "read"
    /\ Apply("stream", StreamExit(UI, FALSE))
    /\ UNCHANGED <<variant, viewVars, sessVars, lastAlert, boot>>

\* ... or it rejects.
ReadFails ==
    /\ acts["stream"].pc = "read"
    /\ Apply("stream", StreamExit(Say(UI, "reqfailed"), TRUE))
    /\ UNCHANGED <<variant, viewVars, sessVars, lastAlert, boot>>

Next ==
    \/ \E ok \in BOOLEAN : PageLoadSettles(ok)
    \/ \E o \in HealthOutcomes : HealthSettles(o)
    \/ \E n \in 0..MaxFiles : ClickProcess(n)
    \/ \E hasUrl \in BOOLEAN : ClickNhentai(hasUrl)
    \/ \E k \in Kinds, o \in Outcomes : FetchSettles(k, o)
    \/ \E k \in Kinds, o \in Outcomes : PlainFetchSettles(k, o)
    \/ \E k \in Kinds : BackoffElapses(k)
    \/ \E k \in Kinds, ok \in BOOLEAN : HandshakeSettles(k, ok)
    \/ \E k \in Kinds, o \in BodyOutcomes : BodySettles(k, o)
    \/ \E chunk \in Chunks : ReadChunk(chunk)
    \/ ReadDone
    \/ ReadFails

Spec == Init /\ [][Next]_vars

\* Every pending fetch, handshake, body read, backoff timer and stream read
\* eventually settles.
Settles ==
    \/ \E o \in HealthOutcomes : HealthSettles(o)
    \/ \E k \in Kinds, o \in Outcomes : FetchSettles(k, o)
    \/ \E k \in Kinds, o \in Outcomes : PlainFetchSettles(k, o)
    \/ \E k \in Kinds : BackoffElapses(k)
    \/ \E k \in Kinds, ok \in BOOLEAN : HandshakeSettles(k, ok)
    \/ \E k \in Kinds, o \in BodyOutcomes : BodySettles(k, o)
    \/ \E chunk \in Chunks : ReadChunk(chunk)
    \/ ReadDone
    \/ ReadFails

FairSpec == Spec /\ WF_vars(Settles)

\* ------------------------------------------------- overlay handlers
\* Assigning overlayImg.src starts a load of that image; its load event runs
\* whatever onload handler is installed when it fires.
Show(img, handler) ==
    [overlayImg EXCEPT !.src = img, !.loading = TRUE, !.onload = handler]

PageOf(index) == [page |-> index + 1, of |-> Len(overlayImages)]

\* A click on the result card of overlayImages[index]: openOverlay(index).
OpenOverlay(index) ==
    /\ index \in 0..(Len(overlayImages) - 1)
    /\ currentIndex' = index
    /\ zoom' = OpenZoom
    /\ overlayImg' = [Show(overlayImages[index + 1], "open")
                        EXCEPT !.opacity = IF Responsive THEN 0 ELSE @]
    /\ overlayOpen' = TRUE
    /\ pageIndicator' = PageOf(index)
    /\ UNCHANGED <<isOverImage, originalImage, appVars>>

\* closeBtn.onclick, on its own or through the Escape key.
CloseOverlay ==
    /\ overlayOpen' = FALSE
    /\ UNCHANGED <<currentIndex, zoom, isOverImage, originalImage, overlayImg,
                   pageIndicator>>

\* The body of showPrev and showNext once the guard has passed: the index
\* moves, then the image at the new index is shown.  Reading .src of an entry
\* the list does not have throws, after currentIndex was changed.
MoveTo(index) ==
    /\ currentIndex' = index
    /\ IF index \in 0..(Len(overlayImages) - 1)
       THEN /\ overlayImg' = Show(overlayImages[index + 1], "nav")
            /\ pageIndicator' = PageOf(index)
       ELSE UNCHANGED <<overlayImg, pageIndicator>>
    /\ UNCHANGED <<zoom, isOverImage, originalImage, overlayOpen>>

\* (mutant) showPrev has no guard.
PrevAllowedAlways == TRUE

PrevAllowed == currentIndex > 0

NextAllowed == currentIndex < Len(overlayImages) - 1

ShowPrev == IF PrevAllowed THEN MoveTo(currentIndex - 1) ELSE UNCHANGED viewVars

ShowNext == IF NextAllowed THEN MoveTo(currentIndex + 1) ELSE UNCHANGED viewVars

\* zoom = z; updateZoom().
SetZoom(z) ==
    /\ zoom' = z
    /\ overlayImg' = UpdateZoom(overlayImg, originalImage, z)
    /\ UNCHANGED <<currentIndex, isOverImage, originalImage, overlayOpen,
                   pageIndicator>>

\* The buttons and the image of the overlay take pointer events only while
\* the overlay is displayed.
ClickClose == overlayOpen /\ CloseOverlay /\ UNCHANGED appVars
ClickPrev == overlayOpen /\ ShowPrev /\ UNCHANGED appVars
ClickNext == overlayOpen /\ ShowNext /\ UNCHANGED appVars

MouseMoves(over) ==
    /\ overlayOpen
    /\ isOverImage' = over
    /\ UNCHANGED <<currentIndex, zoom, originalImage, overlayOpen, overlayImg,
                   pageIndicator, appVars>>

Wheel(up) ==
    /\ overlayOpen
    /\ IF isOverImage THEN SetZoom(WheelZoom(zoom, up)) ELSE UNCHANGED viewVars
    /\ UNCHANGED appVars

DblClick == overlayOpen /\ SetZoom(ResetZoom) /\ UNCHANGED appVars

\* The keydown listener of the document.  ArrowUp and ArrowDown scroll the
\* content, which is no state of this model.
Keys == {"ArrowLeft", "ArrowRight", "Escape", "ArrowUp", "ArrowDown",
         "+", "=", "-", "_", "0", "a"}

\* (mutant) The keydown listener has no early return.
KeysActiveAlways == TRUE

\* The listener returns at once unless overlay.style.display is "block".
KeysActive == overlayOpen

KeyDown(key) ==
    /\ IF ~KeysActive THEN UNCHANGED viewVars
       ELSE CASE key = "ArrowLeft" -> ShowPrev
              [] key = "ArrowRight" -> ShowNext
              [] key = "Escape" -> CloseOverlay
              [] key \in {"+", "="} -> SetZoom(KeyZoomIn(zoom))
              [] key \in {"-", "_"} -> SetZoom(KeyZoomOut(zoom))
              [] key = "0" -> SetZoom(ResetZoom)
              [] OTHER -> UNCHANGED viewVars
    /\ UNCHANGED appVars

\* The load event of overlayImg.
ImageLoads ==
    /\ overlayImg.loading
    /\ LET img == [overlayImg EXCEPT !.loading = FALSE]
       IN  IF overlayImg.onload = "open" /\ Responsive
           THEN LET size == NaturalSize(img.src)
                IN  /\ originalImage' = size
                    /\ zoom' = FitZoom(size)
                    /\ overlayImg' = [UpdateZoom(img, size, FitZoom(size))
                                        EXCEPT !.opacity = 1]
           ELSE /\ overlayImg' = UpdateZoom(img, originalImage, zoom)
                /\ UNCHANGED <<zoom, originalImage>>
    /\ UNCHANGED <<currentIndex, isOverImage, overlayOpen, pageIndicator, appVars>>

ViewerNext ==
    \/ \E index \in 0..MaxFiles : OpenOverlay(index)
    \/ ClickClose
    \/ ClickPrev
    \/ ClickNext
    \/ \E over \in BOOLEAN : MouseMoves(over)
    \/ \E up \in BOOLEAN : Wheel(up)
    \/ DblClick
    \/ \E key \in Keys : KeyDown(key)
    \/ ImageLoads

\* The viewer on a page whose batch of n files has ended with every file
\* translated: the list holds the n result images and nothing is in flight.
AfterBatch(n) ==
    /\ isProcessing = FALSE
    /\ overlayImages = [i \in 1..n |-> i]
    /\ btnDisabled = [k \in Kinds |-> FALSE]
    /\ percent = 100
    /\ barShown = TRUE
    /\ lastAlert = "none"
    /\ IF variant = "session"
       THEN /\ sessionToken = 1
            /\ sessionInitialized = TRUE
            /\ issued = 1
            /\ initResult = [called |-> TRUE, ret |-> TRUE, status |-> "info"]
       ELSE /\ sessionToken = NoTok
            /\ sessionInitialized = FALSE
            /\ issued = 0
            /\ initResult = NoInit
    /\ boot = "done"
    /\ statusText = "alldone"
    /\ statusLog = RenderedSaid \o AllDoneSaid
    /\ acts = [k \in Kinds |-> Idle]

InitViewer ==
    /\ variant \in Variants
    /\ \E n \in 1..MaxFiles : AfterBatch(n)
    /\ ViewerStart

ViewerSpec == InitViewer /\ [][ViewerNext]_vars

\* The page in use: batches and streams that the server answers, with the
\* user opening result cards and paging through them meanwhile.
Navigates ==
    \/ \E index \in 0..MaxFiles : OpenOverlay(index)
    \/ ClickClose
    \/ ClickPrev
    \/ ClickNext
    \/ ImageLoads

Translates ==
    \/ PageLoadSettles(TRUE)
    \/ HealthSettles("ok")
    \/ \E n \in 0..MaxFiles : ClickProcess(n)
    \/ \E hasUrl \in BOOLEAN : ClickNhentai(hasUrl)
    \/ \E k \in Kinds : FetchSettles(k, "ok")
    \/ \E k \in Kinds : PlainFetchSettles(k, "ok")
    \/ \E k \in Kinds : BodySettles(k, "image")
    \/ ReadChunk(<<"r", "}", NL>>)
    \/ ReadDone

OverlayNext == Translates \/ Navigates

OverlaySpec == Init /\ [][OverlayNext]_vars

\* ------------------------------------------------ the stream, cut finely
\* The read loop of a stream whose connection has just been opened, fed with
\* the chunks above and with every chunk of one or two characters.
CutChars == {"r", "}", NL, " "}
Cuts ==
    Chunks \cup { <<a>> : a \in CutChars } \cup { <<a, b>> : a, b \in CutChars }

\* The handler's activation when `await fetchWithRetry(...)` (or fetch) has
\* returned an OK response at the first attempt.
Connected(init, tok) ==
    LET c == [Turn(StartCall(Idle, init, tok)) EXCEPT !.last = "ok"]
    IN  StreamResumes([c EXCEPT !.done = CallDone(c, "resp", 200)],
                      [how |-> "resp", status |-> 200],
                      [imgs |-> <<>>, pct |-> 0, bar |-> TRUE, said |-> <<>>])

InitCut ==
    /\ variant \in Variants
    /\ isProcessing = TRUE
    /\ overlayImages = <<>>
    /\ btnDisabled = [k \in Kinds |-> k = "stream"]
    /\ percent = 0
    /\ barShown = TRUE
    /\ lastAlert = "none"
    /\ IF variant = "session"
       THEN /\ sessionToken = 1
            /\ sessionInitialized = TRUE
            /\ issued = 1
            /\ initResult = [called |-> TRUE, ret |-> TRUE, status |-> "info"]
       ELSE /\ sessionToken = NoTok
            /\ sessionInitialized = FALSE
            /\ issued = 0
            /\ initResult = NoInit
    /\ boot = "done"
    /\ LET b == Connected(sessionInitialized, sessionToken)
       IN  /\ statusLog = b.ui.said
           /\ statusText = Shown(AcceptSaid("stream")[Len(AcceptSaid("stream"))],
                                 b.ui.said)
           /\ acts = [k \in Kinds |-> IF k = "stream" THEN b.act ELSE Idle]
    /\ ViewerStart

CutNext ==
    \/ \E chunk \in Cuts : ReadChunk(chunk)
    \/ ReadDone
    \/ ReadFails

CutSpec == InitCut /\ [][CutNext]_vars

\* The session-aware script with a /get-session endpoint that may answer OK
\* with a JSON body that has no token.
InitSessionPage == Init /\ variant = "session"

\* The answers of the target URL that matter to the session: accepted,
\* session expired, no connection.
SessionOutcomes == {"ok", "s403m", "neterr"}

SessionNext ==
    \/ \E ok \in BOOLEAN, hasToken \in BOOLEAN : PageLoadAnswers(ok, hasToken)
    \/ \E n \in 0..MaxFiles : ClickProcess(n)
    \/ \E hasUrl \in BOOLEAN : ClickNhentai(hasUrl)
    \/ \E k \in Kinds, o \in SessionOutcomes : FetchSettles(k, o)
    \/ \E k \in Kinds : BackoffElapses(k)
    \/ \E k \in Kinds, ok \in BOOLEAN, hasToken \in BOOLEAN :
          HandshakeAnswers(k, ok, hasToken)
    \/ \E k \in Kinds, o \in {"image"} : BodySettles(k, o)
    \/ ReadChunk(<<"r", "}", NL>>)
    \/ ReadDone
    \/ ReadFails

SessionSpec == InitSessionPage /\ [][SessionNext]_vars

\* ====================================================== properties
InFlight == {k \in Kinds : acts[k].pc # "idle"}

\* A button turn that reaches the re-entrancy guard.
Invocation ==
    \/ \E n \in 1..MaxFiles : ClickProcess(n)
    \/ \E hasUrl \in BOOLEAN : ClickNhentai(hasUrl)

\* C1: at most one of the two operations is in flight, the busy flag is set
\* while one is, and an invocation that finds the flag set changes no
\* activation (it issues no fetch and starts no loop) and only alerts.
C1_OneOperationInFlight ==
    /\ [](Cardinality(InFlight) <= 1 /\ (InFlight # {} => isProcessing))
    /\ [][(isProcessing /\ Invocation) =>
            (lastAlert' = "busy" /\ UNCHANGED <<acts, uiVars, sessVars>>)]_vars

\* An upload click was rejected while a stream was being read.
C1_Witness ==
    /\ acts["stream"].pc = "read"
    /\ acts["batch"].pc = "idle"
    /\ lastAlert = "busy"

Batch == acts["batch"]

\* C2: a batch makes its upload calls in index order 0, 1, ..., the call for
\* a file is made only once every earlier file has been handled, and the
\* batch ends with exactly files.length calls made.
C2_SequentialUploads ==
    /\ [](Batch.pc # "idle" =>
            /\ Len(Batch.uploads) = Len(Batch.handled) + 1
            /\ Len(Batch.uploads) <= Batch.n
            /\ \A j \in 1..Len(Batch.uploads) : Batch.uploads[j] = j - 1
            /\ \A j \in 1..Len(Batch.handled) : Batch.handled[j].file = j - 1)
    /\ [][(Batch.pc # "idle" /\ Batch'.pc = "idle") =>
            Len(Batch.uploads) = Batch.n]_vars

\* The third upload of a batch of three is pending.
C2_Witness ==
    /\ Batch.pc = "fetch"
    /\ Batch.n = 3
    /\ Batch.uploads = <<0, 1, 2>>
    /\ Len(Batch.handled) = 2

\* C3: while a batch runs no step removes, replaces or reorders an entry of
\* overlayImages; the batch ends only in the turn that handles its last
\* file; and a turn that handles an earlier file, failed or not, makes the
\* upload call of the next one.
C3_FailureIsolated ==
    [][Batch.pc # "idle" =>
        /\ IsPrefix(overlayImages, overlayImages')
        /\ (Batch'.pc = "idle" => Batch.i = Batch.n - 1)
        /\ (Batch'.pc # "idle" /\ Len(Batch'.handled) > Len(Batch.handled) =>
              /\ Batch'.handled = Append(Batch.handled, Batch'.handled[Len(Batch'.handled)])
              /\ Batch'.uploads = Append(Batch.uploads, Batch.i + 1)
              /\ Batch'.pc \in {"fetch", "acquire"})]_vars

\* File 0 was rendered, file 1 failed, file 2 is being uploaded and the
\* entry of file 0 is still the list.
C3_Witness ==
    /\ Batch.pc = "fetch"
    /\ Len(Batch.handled) = 2
    /\ Batch.handled[1].how = "ok"
    /\ Batch.handled[2].how = "fail"
    /\ Batch.uploads = <<0, 1, 2>>
    /\ overlayImages = <<1>>

\* C4: under the assumption that every pending fetch, wait and read settles,
\* a set busy flag is eventually cleared; and the flag is never set while no
\* operation is in flight.
C4_BusyFlagReleased ==
    /\ isProcessing ~> ~isProcessing
    /\ [](InFlight = {} => ~isProcessing)

\* A stream run that had rendered results ended through its catch block
\* (progress bar hidden) and the flag is clear.
C4_Witness ==
    /\ InFlight = {}
    /\ ~isProcessing
    /\ ~barShown
    /\ overlayImages # <<>>
    /\ ~btnDisabled["stream"]

Retrying == variant # "simple"

\* C5: in a call whose fetches so far all answered 503, the 503 of attempt
\* n <= retries leaves the n-th backoff wait pending (so attempt n+1 follows);
\* and a 2xx answer that follows k 503s is returned to the caller, after
\* k+1 fetches and k waits in all.
C5_ColdStartThenSuccess ==
    \A k \in Kinds :
        LET a == acts[k]
        IN  Retrying =>
            /\ (a.last = "s503" /\ a.n503 = a.nFetch /\ a.nFetch <= a.retries =>
                  a.pc = "backoff" /\ Len(a.waits) = a.nFetch)
            /\ (a.last = "ok" /\ a.n503 = a.nFetch - 1 =>
                  /\ a.done.res = "resp"
                  /\ a.done.status = 200
                  /\ a.done.nFetch = a.n503 + 1
                  /\ a.done.nWait = a.n503
                  /\ a.n503 <= a.retries)

\* 503, 503, 200 with retries = 3: returned after 3 fetches and 2 waits.
C5_Witness ==
    \E k \in Kinds :
        /\ Retrying
        /\ acts[k].last = "ok"
        /\ acts[k].retries = 3
        /\ acts[k].done = [res |-> "resp", status |-> 200, nFetch |-> 3, nWait |-> 2,
                           sumWait |-> 9000, n503 |-> 2, msg |-> NoMsg]

\* C6: a call fetches the target at most retries + 1 times and waits at most
\* retries times; a wait or a re-handshake is pending only when an attempt
\* is left; and a call never ends without a response or an error.
C6_BoundedAttempts ==
    \A k \in Kinds :
        LET a == acts[k]
        IN  Retrying =>
            /\ a.nFetch <= a.retries + 1
            /\ Len(a.waits) <= a.retries
            /\ a.att <= a.retries
            /\ (a.pc \in {"backoff", "reinit"} => a.att < a.retries)
            /\ a.done.res \in {"none", "resp", "throw"}
            /\ a.done.nFetch <= MAX_RETRIES + 1
            /\ a.done.nWait <= MAX_RETRIES

\* A call has thrown after retries + 1 fetches and retries waits.
C6_Witness ==
    \E k \in Kinds :
        /\ Retrying
        /\ acts[k].done.res = "throw"
        /\ acts[k].done.nFetch = MAX_RETRIES + 1
        /\ acts[k].done.nWait = MAX_RETRIES

C8_FailsImmediately ==
    \A k \in Kinds :
        (variant = "session" /\ acts[k].last \in {"s405", "s429"}) =>
            (acts[k].done.res = "throw" /\ acts[k].pc # "backoff")

\* C9 (as claimed): in the session variant every pending request of the
\* target URL carries the value sessionToken had when it was sent.
C9_HeaderIsCurrentToken ==
    \A k \in Kinds :
        (variant = "session" /\ acts[k].pc = "fetch") => acts[k].hdr = acts[k].sentTok

ExpiryTurn(k) ==
    /\ variant = "session"
    /\ acts[k].pc = "fetch"
    /\ acts'[k].last = "s403m"

C11_ExpiryRecovered ==
    [][\A k \in Kinds :
        (variant = "session" /\ acts[k].expired /\ acts'[k].pc = "idle")
            => ~NoSession']_vars

\* C12: in the session variant a request to the API is only ever sent while
\* the session is active: every pending fetch went out with sessionInitialized
\* true and a token in sessionToken.
C12_SentOnlyWhenActive ==
    \A k \in Kinds :
        (variant = "session" /\ acts[k].pc = "fetch") => acts[k].sentTok # NoTok

\* A call of initSession settles in this step: the page-load call, or the one
\* an operation awaits inside fetchWithRetry.
InitSessionReturns ==
    \/ variant = "session" /\ boot = "pending" /\ boot' = "done"
    \/ \E k \in Kinds : acts[k].pc \in {"acquire", "reinit"} /\ acts'[k] # acts[k]

\* C13: when the handshake call succeeds (the server issued a token)
\* initSession stores that token, sets sessionInitialized and returns true;
\* when it fails it returns false, leaves an error status and leaves
\* sessionToken and sessionInitialized as they were.
C13_InitSession ==
    [][InitSessionReturns =>
         IF issued' # issued
         THEN /\ sessionToken' = issued'
              /\ sessionInitialized'
              /\ initResult'.ret
         ELSE /\ sessionToken' = sessionToken
              /\ sessionInitialized' = sessionInitialized
              /\ ~initResult'.ret
              /\ initResult'.status = "error"]_vars

\* A handshake run after a session-expiry 403 has failed: the request goes on
\* with the session still cleared.
C13_Witness ==
    \E k \in Kinds :
        /\ acts[k].expired
        /\ acts[k].pc = "fetch"
        /\ initResult.called /\ ~initResult.ret
        /\ initResult.status = "error"
        /\ ~sessionInitialized
        /\ sessionToken = NoTok

\* A call of the retry client that used its last attempt has just finished.
Exhausted(k) ==
    /\ Retrying
    /\ acts[k].done.res # "none"
    /\ acts[k].done.nFetch = acts[k].retries + 1

\* C15 as stated: when retries are exhausted, a last attempt that produced a
\* response makes fetchWithRetry return that response, and one that threw (a
\* network error or a timeout) makes it throw an error naming the attempt
\* count retries + 1 and the underlying cause.
C15_ExhaustedNamesAttempts ==
    \A k \in Kinds :
        Exhausted(k) =>
            IF acts[k].last \in Responses
            THEN /\ acts[k].done.res = "resp"
                 /\ acts[k].done.status = StatusOf(acts[k].last)
            ELSE /\ acts[k].done.res = "throw"
                 /\ acts[k].done.msg.attempts = acts[k].retries + 1
                 /\ acts[k].done.msg.cause = acts[k].last

\* C15 amended: as above for a response and for a network error; a last
\* attempt aborted by the timeout throws 'Request timed out after 3 minutes',
\* which names neither the attempt count nor the caught error.
C15_ExhaustedOutcome ==
    \A k \in Kinds :
        Exhausted(k) =>
            IF acts[k].last \in Responses
            THEN /\ acts[k].done.res = "resp"
                 /\ acts[k].done.status = StatusOf(acts[k].last)
            ELSE IF acts[k].last = "abort"
            THEN /\ acts[k].done.res = "throw"
                 /\ acts[k].done.msg = [kind |-> "timeout", attempts |-> 0,
                                        cause |-> "none"]
            ELSE /\ acts[k].done.res = "throw"
                 /\ acts[k].done.msg = [kind |-> "failed",
                                        attempts |-> acts[k].retries + 1,
                                        cause |-> acts[k].last]

\* The fourth attempt of a file's upload failed with a network error and the
\* batch has gone on to the next file.
C15_Witness ==
    /\ Exhausted("batch")
    /\ Batch.last = "neterr"
    /\ Batch.done.res = "throw"
    /\ Batch.done.msg.attempts = MAX_RETRIES + 1
    /\ Batch.pc = "fetch"

\* C16: whenever the overlay is open, 0 <= currentIndex < overlayImages.length,
\* after any interleaving of open, next, prev, close, result arrivals and
\* starts of a new batch or stream.
C16_IndexInBounds ==
    overlayOpen => currentIndex \in 0..(Len(overlayImages) - 1)

\* showNext / showPrev run in this step: their button is clicked, or their
\* arrow key is pressed while the overlay is open.
NextPressed == ClickNext \/ (overlayOpen /\ KeyDown("ArrowRight"))
PrevPressed == ClickPrev \/ (overlayOpen /\ KeyDown("ArrowLeft"))

InBounds == currentIndex \in 0..(Len(overlayImages) - 1)

\* C17: showNext at the last index and showPrev at index 0 change nothing
\* (currentIndex, the displayed image, the page indicator and the onload
\* handler all stay); at any other in-bounds index they move currentIndex by
\* exactly +1 and -1.
C17_NavigationFrame ==
    [][/\ NextPressed =>
            IF currentIndex = Len(overlayImages) - 1
            THEN UNCHANGED <<currentIndex, overlayImg, pageIndicator>>
            ELSE InBounds => currentIndex' = currentIndex + 1
       /\ PrevPressed =>
            IF currentIndex = 0
            THEN UNCHANGED <<currentIndex, overlayImg, pageIndicator>>
            ELSE InBounds => currentIndex' = currentIndex - 1]_vars

\* showNext has moved the viewer to the last image of a list of several,
\* where another showNext changes nothing.
C17_Witness ==
    /\ overlayOpen
    /\ currentIndex > 0
    /\ currentIndex = Len(overlayImages) - 1
    /\ overlayImg.onload = "nav"
    /\ overlayImg.src = overlayImages[currentIndex + 1]
    /\ pageIndicator = [page |-> currentIndex + 1, of |-> Len(overlayImages)]

\* C18: in the responsive variant zoom stays within the wheel range
\* [0.1, 1.0] after every adjustment: open, fit-to-window, wheel ticks,
\* '+', '=', '-', '_', the '0' reset and double-click.
C18_ResponsiveZoomRange ==
    Responsive => (100 <= zoom /\ zoom <= 1000)

\* C19: in the simple variant zoom is within [0.5, 2.0] in every reachable
\* state.
C19_SimpleZoomRange ==
    ~Responsive => (500 <= zoom /\ zoom <= 2000)

\* The simple viewer is open with zoom at the upper end of its range and the
\* scale applied.
C19_Witness ==
    /\ ~Responsive
    /\ overlayOpen
    /\ zoom = 2000
    /\ overlayImg.scale = 2000

\* The zoom reset runs in this step: a double-click on the image, or the '0'
\* key while the overlay is open.
ResetPressed == DblClick \/ (overlayOpen /\ KeyDown("0"))

\* C20: within one variant the value zoom takes right after a double-click or
\* the '0' key equals the value openOverlay assigns when an image is opened.
C20_SingleDefault ==
    [][ResetPressed => zoom' = OpenZoom]_vars


\* A key is pressed in this step while the overlay is closed.
KeyWhileClosed == ~overlayOpen /\ \E key \in Keys : KeyDown(key)

\* C27: while the overlay is closed no keydown event changes zoom,
\* currentIndex, the displayed image or the open/closed state of the overlay.
C27_ClosedKeysInert ==
    [][KeyWhileClosed =>
         UNCHANGED <<zoom, currentIndex, overlayImg, overlayOpen>>]_vars

\* The overlay was opened, zoomed away from the reset value and closed on an
\* image that has a successor: every shortcut would have an effect if the
\* listener ran.
C27_Witness ==
    /\ ~overlayOpen
    /\ overlayImg.src # 0
    /\ ~overlayImg.loading
    /\ zoom # ResetZoom
    /\ currentIndex < Len(overlayImages) - 1


\* updateZoom runs in this step and gets past its first line, with no load of
\* the image element pending afterwards: a load event, a double-click, a
\* wheel tick over the image or a zoom key.
ZoomKeys == {"+", "=", "-", "_", "0"}

Rendered ==
    /\ \/ ImageLoads
       \/ DblClick
       \/ isOverImage /\ \E up \in BOOLEAN : Wheel(up)
       \/ overlayOpen /\ \E key \in ZoomKeys : KeyDown(key)
    /\ originalImage'.w # 0
    /\ ~overlayImg'.loading

\* C28: in the responsive variant, whenever the overlay image's dimensions
\* are rendered, its width and height are the natural width and height of
\* the image now displayed, overlayImages[currentIndex], times zoom; also
\* after next or prev moved to an image of another natural size.
C28_RenderedIsNaturalTimesZoom ==
    [][(Responsive /\ Rendered) =>
         LET size == NaturalSize(overlayImages[currentIndex' + 1])
         IN  /\ overlayImg'.w = size.w * zoom'
             /\ overlayImg'.h = size.h * zoom']_vars


\* A batch or a stream is accepted in this step.
Accepted == ~isProcessing /\ isProcessing'

\* C21: overlayImages is set to empty exactly when a batch or stream is
\* accepted, never by a rejected invocation; in every other step it only
\* grows at its end, so the list at an earlier moment of a run is a prefix of
\* the list at any later moment.
C21_AppendOnly ==
    [][IF Accepted
       THEN overlayImages' = <<>>
       ELSE IsPrefix(overlayImages, overlayImages')]_vars

\* A run whose list has grown to two entries, with more turns to come.
C21_Witness ==
    /\ isProcessing
    /\ Len(overlayImages) = 2
    /\ \E k \in Kinds : acts[k].pc \in {"fetch", "read"}


\* The stream handler's activation.
Stream == acts["stream"]

\* What the handler does with a text that arrives whole, as a single chunk:
\* the lines ended by a newline, those of them that are not blank, and the
\* state the loop over them leaves.
CompleteLines(text) ==
    LET parts == SplitLines(text) IN SubSeq(parts, 1, Len(parts) - 1)

NotBlank(line) == Trim(line) # <<>>

StreamStart ==
    [imgs |-> <<>>, total |-> 0, title |-> 0, pct |-> 0, said |-> <<>>,
     decoded |-> <<>>]

OneChunk(text) == HandleLines(CompleteLines(text), StreamStart)

\* C22: stream line buffering is transparent to chunk boundaries: however
\* the text received so far was cut into chunks, the lines handed to
\* JSON.parse, and the effects of the events handled, are those of the same
\* text arriving as one chunk; what follows the last newline waits in buffer.
C22_ChunkingTransparent ==
    Stream.pc = "read" =>
        LET parts == SplitLines(Stream.text)
            one == OneChunk(Stream.text)
        IN  /\ Stream.decoded = SelectSeq(CompleteLines(Stream.text), NotBlank)
            /\ Stream.decoded = one.decoded
            /\ Stream.buffer = parts[Len(parts)]
            /\ overlayImages = one.imgs
            /\ Stream.total = one.total
            /\ Stream.title = one.title
            /\ percent = one.pct

\* Two result lines were received in two chunks, the first chunk ending in
\* the middle of the first line.
C22_Witness ==
    /\ Stream.pc = "read"
    /\ Stream.reads = 2
    /\ Stream.text = <<"r", "}", NL, "R", "}", NL>>
    /\ Stream.decoded = << <<"r", "}">>, <<"R", "}">> >>
    /\ overlayImages = <<1, 2>>

\* JSON.parse accepts the line.
WellFormed(line) == Parse(line).type # "bad"

\* What the line shows when the read loop starts.
ConnectedText == IF variant = "simple" THEN "fetching" ELSE "connected"

\* A chunk is read in this step.
ChunkRead == \E chunk \in Cuts : ReadChunk(chunk)

\* C23: a malformed stream line changes no state and does not end the read
\* loop: after every chunk overlayImages, totalToProcess, galleryTitle, the
\* progress width and the status line are what the well-formed lines received
\* so far produce on their own, whether they came before or after the
\* malformed ones, and the handler is waiting for the next read.
C23_MalformedSkipped ==
    [][ChunkRead =>
         LET valid == SelectSeq(CompleteLines(Stream'.text), WellFormed)
             v == HandleLines(valid, StreamStart)
         IN  /\ Stream'.pc = "read"
             /\ isProcessing'
             /\ overlayImages' = v.imgs
             /\ Stream'.total = v.total
             /\ Stream'.title = v.title
             /\ percent' = v.pct
             /\ statusText' = Shown(ConnectedText, v.said)]_vars

\* A result line, then in the next chunk a malformed line followed by
\* another result line: both results were handled.
C23_Witness ==
    /\ Stream.pc = "read"
    /\ Stream.text = <<"r", "}", NL, "}", NL, "R", "}", NL>>
    /\ Stream.decoded = << <<"r", "}">>, <<"}">>, <<"R", "}">> >>
    /\ overlayImages = <<1, 2>>
    /\ statusText = "pagedone"

\* The images of the result lines among lines, in order.
IsResult(line) == Parse(line).type = "result"

ResultImages(lines) ==
    LET results == SelectSeq(lines, IsResult)
    IN  [k \in 1..Len(results) |-> Parse(results[k]).image]

\* An error or a complete event has been handled.
Warned(lines) ==
    \E k \in 1..Len(lines) : Parse(lines[k]).type \in {"error", "complete"}

\* C24: the stream read loop exits only when the reader signals done or a
\* read throws.  While the handler waits for a read isProcessing is true;
\* a step that leaves the loop is the done signal or a failed read; and
\* after every chunk overlayImages holds the images of all result lines
\* received, those after an error or a complete event included.
C24_OnlyDoneEndsLoop ==
    [][Stream.pc = "read" =>
         /\ isProcessing
         /\ Stream'.pc # "read" => (ReadDone \/ ReadFails)
         /\ ChunkRead =>
              /\ Stream'.pc = "read"
              /\ overlayImages' = ResultImages(CompleteLines(Stream'.text))]_vars

\* A complete event and a malformed line in the first chunk, a result in the
\* second: the result is in the list and the handler still waits for done.
C24_Witness ==
    /\ Stream.pc = "read"
    /\ isProcessing
    /\ Stream.text = <<"c", "}", NL, "}", NL, "r", "}", NL>>
    /\ Warned(Stream.decoded)
    /\ overlayImages = <<1>>

\* The stream handler is suspended before its read loop: on its connection
\* call or on the body of a non-OK response.
Connecting == Stream.pc \notin {"idle", "read"}

\* C25: in the stream handler, when the initial response is non-OK or
\* opening the connection throws, no read of the response stream is
\* performed, nothing is appended to overlayImages, the progress bar
\* container is hidden and isProcessing is false when the handler ends.
\* Only an OK response takes the handler into the read loop.
C25_FailedConnectionNoRead ==
    [][Connecting =>
         /\ Stream.reads = 0
         /\ Stream.text = <<>>
         /\ overlayImages = <<>>
         /\ Stream'.pc = "read" => IsOk(Stream'.resp)
         /\ Stream'.pc = "idle" =>
              /\ overlayImages' = <<>>
              /\ ~barShown'
              /\ ~isProcessing'
              /\ ~btnDisabled'["stream"]]_vars

\* The handler has ended on a non-OK response.
C25_Witness ==
    /\ Stream.pc = "idle"
    /\ ~isProcessing
    /\ ~barShown
    /\ overlayImages = <<>>
    /\ statusLog # <<>>
    /\ statusLog[1] = "httperror"

\* The lines the chunk read in this step handed to JSON.parse.
NewlyDecoded == SubSeq(Stream'.decoded, Len(Stream.decoded) + 1, Len(Stream'.decoded))

\* C26: during a stream run each handled result event appends exactly one
\* entry to overlayImages, in arrival order, and no other event appends
\* anything; when the run ends overlayImages.length is the number of
\* well-formed result lines received, whatever progress values they carried.
C26_OneEntryPerResult ==
    [][Stream.pc = "read" =>
         /\ ChunkRead => overlayImages' = overlayImages \o ResultImages(NewlyDecoded)
         /\ Stream'.pc = "idle" =>
              Len(overlayImages') =
                 Len(SelectSeq(CompleteLines(Stream.text), IsResult))]_vars

\* An info event announcing two pages and one result that reports progress
\* 2: the bar is at 100% and the list has one entry.
C26_Witness ==
    /\ Stream.pc = "read"
    /\ Stream.total = 2
    /\ percent = 100
    /\ overlayImages = <<2>>
    /\ Len(SelectSeq(Stream.decoded, IsResult)) = 1

\* An Error is raised inside operation k in this step: the retry client
\* throws (retries exhausted by a network error or by the timeout, or the
\* handshake before the loop failed), the simple script's fetch rejects, the
\* body of a response cannot be read outside a try block of its own, or a
\* read of the stream rejects.
Raised(k) ==
    \/ /\ LastAttempt(acts[k].att, acts[k].retries)
       /\ \E o \in {"neterr", "abort"} : FetchSettles(k, o)
    \/ PlainFetchSettles(k, "neterr")
    \/ acts[k].pc = "acquire" /\ HandshakeSettles(k, FALSE)
    \/ acts[k].pc = "json" /\ BodySettles(k, "bad")
    \/ variant = "simple" /\ acts[k].pc = "errjson" /\ BodySettles(k, "bad")
    \/ k = "stream" /\ ReadFails

Wrotes(m) == \E j \in 1..Len(statusLog') : statusLog'[j] = m

\* C29: no error raised by the retry client or by response or stream
\* handling escapes processFiles or the stream handler: the step writes the
\* 'Request failed' status message, and the batch goes on with the next file
\* (or, after the last file, ends as usual) while the stream ends with the
\* bar hidden, the busy flag cleared and the button enabled.
C29_ErrorsBecomeStatus ==
    [][\A k \in Kinds : Raised(k) =>
         /\ Wrotes("reqfailed")
         /\ IF k = "batch" /\ acts[k].i + 1 < acts[k].n
            THEN /\ acts'[k].pc \in {"fetch", "acquire"}
                 /\ acts'[k].i = acts[k].i + 1
                 /\ isProcessing'
            ELSE /\ acts'[k].pc = "idle"
                 /\ ~isProcessing'
                 /\ ~btnDisabled'[k]
                 /\ IF k = "batch"
                    THEN statusText' = "alldone"
                    ELSE statusText' = "reqfailed" /\ ~barShown']_vars

\* The upload of a file threw and the batch is uploading the next one.
C29_Witness ==
    /\ Batch.pc = "fetch"
    /\ Batch.i > 0
    /\ Batch.done.res = "throw"
    /\ isProcessing
    /\ statusLog # <<>>
    /\ statusLog[1] = "reqfailed"

\* A button handler runs in this step, and returns at one of its guards.
Clicked ==
    \/ \E n \in 0..MaxFiles : ClickProcess(n)
    \/ \E hasUrl \in BOOLEAN : ClickNhentai(hasUrl)

Rejected == Clicked /\ lastAlert' # "none"

\* C30: a rejected invocation (busy flag set, session not initialised, empty
\* gallery URL, no file) leaves all state unchanged, and it is not queued:
\* an operation starts only in the step of a click that passes the guards,
\* and when the running operation ends nothing is left pending.
C30_RejectedChangesNothing ==
    [][/\ Rejected =>
            UNCHANGED <<isProcessing, overlayImages, btnDisabled, percent, barShown,
                        statusText, sessVars, acts, viewVars>>
       /\ Accepted => Clicked
       /\ (isProcessing /\ ~isProcessing') =>
            \A k \in Kinds : acts'[k].pc = "idle"]_vars

\* A click was rejected as busy while a run with results was in flight and
\* the overlay was open on one of them.
C30_Witness ==
    /\ lastAlert = "busy"
    /\ isProcessing
    /\ overlayImages # <<>>
    /\ overlayOpen
    /\ \E k \in Kinds : acts[k].pc # "idle"

\* C31: in fetchWithRetry of main.js only 503 responses and thrown network or
\* timeout errors are retried: a non-OK response with any other status is
\* returned to the caller in the turn it is received, on any attempt, with
\* no backoff wait and no further fetch.
C31_OnlyColdStartRetried ==
    [][\A k \in Kinds, o \in Outcomes :
         (variant = "main" /\ FetchSettles(k, o)) =>
            /\ o \in Responses \ {"ok", "s503"} =>
                  /\ acts'[k].pc = "errjson"
                  /\ acts'[k].resp = StatusOf(o)
                  /\ acts'[k].done.res = "resp"
                  /\ acts'[k].done.status = StatusOf(o)
                  /\ acts'[k].done.nFetch = acts[k].nFetch
                  /\ acts'[k].done.nWait = Len(acts[k].waits)
                  /\ acts'[k].nFetch = acts[k].nFetch
                  /\ acts'[k].waits = acts[k].waits
            /\ acts'[k].pc = "backoff" => o \in {"s503", "neterr", "abort"}]_vars

\* In main.js an upload answered 503 once and then 500: the 500 is with the
\* caller after two fetches and one wait, on an attempt that is not the last.
C31_Witness ==
    /\ variant = "main"
    /\ Batch.last = "s500"
    /\ Batch.pc = "errjson"
    /\ Batch.att = 1
    /\ Batch.done.res = "resp"
    /\ Batch.done.status = 500
    /\ Batch.done.nFetch = 2
    /\ Batch.done.nWait = 1

\* A turn of the running batch, and the one after which processFiles returns.
BatchStep == Batch.pc # "idle" /\ acts' # acts
BatchEnds == Batch.pc # "idle" /\ Batch'.pc = "idle"

\* The body of an OK response was parsed in this step.
BodyParsed ==
    /\ Batch.pc = "json"
    /\ \E o \in {"image", "noimage"} : BodySettles("batch", o)

\* The range, the monotonicity and the only-for-OK parts of C32.
ProgressSteps ==
    BatchStep =>
        /\ percent \in 0..100 /\ percent' \in 0..100
        /\ percent' >= percent
        /\ percent' # percent =>
              /\ Batch.pc = "json"
              /\ percent' = RoundPct(Batch.i + 1, Batch.n)

RECURSIVE Denominators(_, _)
Denominators(lines, s) ==
    IF lines = <<>> THEN <<>>
    ELSE (IF NotBlank(Head(lines)) /\ Parse(Head(lines)).type = "result"
          THEN <<s.total>> ELSE <<>>)
         \o Denominators(Tail(lines), HandleLine(Head(lines), s))

\* C33: in a stream run the percentage round(progress/totalToProcess*100) is
\* computed with a non-zero denominator for every result event, whatever
\* order the server sends info and result events in.
C33_DenominatorNonZero ==
    Stream.pc = "read" =>
        LET d == Denominators(Stream.decoded, StreamStart)
        IN  \A j \in DOMAIN d : d[j] # 0

\* A zoom-in / zoom-out input is handled in this step.
ZoomInInput == Wheel(TRUE) \/ KeyDown("+") \/ KeyDown("=")
ZoomOutInput == Wheel(FALSE) \/ KeyDown("-") \/ KeyDown("_")

\* C34: zoom adjustments are monotone in their direction from every
\* reachable zoom value: a zoom-in input (wheel up, '+', '=') never leaves
\* zoom lower than before, and a zoom-out input (wheel down, '-', '_') never
\* leaves zoom higher than before.
C34_ZoomMonotone ==
    [][/\ ZoomInInput => zoom' >= zoom
       /\ ZoomOutInput => zoom' <= zoom]_vars

\* C35: in the responsive variant, for every interleaving of open, next, prev
\* and image-load events: once the overlay is open and the selected image has
\* finished loading, the image is visible (opacity 1) and
\* originalImageWidth/originalImageHeight are non-zero; pressing next or prev
\* before the opened image's load event does not leave the image hidden.
C35_LoadedIsVisible ==
    (Responsive /\ overlayOpen /\ ~overlayImg.loading) =>
        /\ overlayImg.opacity = 1
        /\ originalImage.w # 0
        /\ originalImage.h # 0

\* C36: in the session-aware variant, in every reachable state
\* sessionInitialized = true implies that sessionToken holds the token of the
\* most recent successful handshake (never null or undefined), and
\* sessionToken = null implies sessionInitialized = false.
C36_InitializedHasToken ==
    variant = "session" =>
        /\ sessionInitialized => (sessionToken # NoTok /\ sessionToken = issued)
        /\ sessionToken = NoTok => ~sessionInitialized

\* C37: in the stream handler every newline-terminated, non-blank line is
\* decoded exactly once, in arrival order; text that is still in the buffer
\* without a terminating newline when the reader signals done is discarded
\* without being decoded, so a final event line that lacks a trailing newline
\* produces no event: no overlay entry, no progress, no status message.
C37_OnlyTerminatedLinesDecoded ==
    [][/\ ChunkRead =>
            /\ Stream'.decoded = SelectSeq(CompleteLines(Stream'.text), NotBlank)
            /\ LET parts == SplitLines(Stream'.text)
               IN  Stream'.buffer = parts[Len(parts)]
       /\ ReadDone =>
            /\ Stream'.pc = "idle"
            /\ statusLog' = <<>>
            /\ UNCHANGED <<overlayImages, percent, statusText, barShown>>]_vars

\* A result line with its newline was decoded, and a second result line
\* without one is waiting in the buffer.
C37_Witness ==
    /\ Stream.pc = "read"
    /\ Stream.text = <<"r", "}", NL, "r", "}">>
    /\ Stream.decoded = << <<"r", "}">> >>
    /\ Stream.buffer = <<"r", "}">>
    /\ overlayImages = <<1>>

\* The files among those handled whose response was OK and carried a result
\* image, and whether the file handled in this step is one more.
WithImage(e) == e.how = "ok"
ImageArrives == Batch.pc = "json" /\ BodySettles("batch", "image")

\* C38: when an accepted batch of N files ends, overlayImages.length equals
\* the number of files whose response was OK and carried a result image (so
\* 0 <= length <= N), while the final status reports success for all N
\* files, whatever the number of failed files.
C38_CountAndFinalStatus ==
    [][BatchEnds =>
         /\ Len(Batch.handled) = Batch.n - 1
         /\ Len(overlayImages') = Len(SelectSeq(Batch.handled, WithImage))
                                     + (IF ImageArrives THEN 1 ELSE 0)
         /\ Len(overlayImages') \in 0..Batch.n
         /\ statusText' = "alldone"
         /\ statusLog'[Len(statusLog')] = "alldone"]_vars

\* A batch of three files has ended: the second file failed, the other two
\* are in the list, and the line reports success.
C38_Witness ==
    /\ Batch.pc = "idle"
    /\ ~isProcessing
    /\ overlayImages = <<1, 3>>
    /\ statusText = "alldone"
    /\ statusLog[Len(statusLog)] = "alldone"

====
